---- MODULE Spec2Model ----
(***************************************************************************)
(* Model of scripts/faster_whisper/worker.py: the line-delimited request   *)
(* loop (main), the backend resolver, the compute-type negotiator, the     *)
(* model cache and the transcribe / prefetch orchestrators.                *)
(*                                                                         *)
(* Python values are held as follows.  None (also JSON null) is the string *)
(* None below; a dict is a function whose DOMAIN is its key set; an        *)
(* Optional[bool] module global is <<>> (None) or <<b>>; the outcome of an *)
(* external call is <<>> (it raised) or <<v>> (it returned v).             *)
(***************************************************************************)
EXTENDS Integers, Sequences, FiniteSets, TLC

VARIABLES
    env,                            \* os.environ, fixed for the process
    hw,                             \* what the ctranslate2 / ctypes probes answer
    MODEL_CACHE,                    \* worker.py:18
    GPU_CAPABILITY_CACHE,           \* worker.py:20
    CUDA_RUNTIME_LIBS_READY_CACHE,  \* worker.py:21
    pc,                             \* position of main: "start", "loop", "exited"
    nRead,                          \* lines consumed from stdin
    nReq,                           \* non-blank lines among them
    nOut,                           \* lines printed to stdout
    nExc,                           \* iterations that ended in the except clause
    line,                           \* the line consumed last
    resp,                           \* the line printed last
    calls,                          \* external calls made while handling `line`
    probe                           \* the last direct call of a resolver and its result
                                    \* (specifications SpecBackend and SpecCompute)

vars == <<env, hw, MODEL_CACHE, GPU_CAPABILITY_CACHE, CUDA_RUNTIME_LIBS_READY_CACHE,
          pc, nRead, nReq, nOut, nExc, line, resp, calls, probe>>

----------------------------------------------------------------------------
(* Bounds of the model. *)

MaxLines == 2          \* input lines consumed in one run
LoadMs == 7            \* what a WhisperModel(...) call is measured to take
DecodeMs == 3          \* what the decode of a request is measured to take

----------------------------------------------------------------------------
(* Python values. *)

None == "<None>"

Raised == <<>>
Ret(v) == <<v>>

ALLOWED_MODELS == {"small.en", "large-v3"}

(* str.strip() and str.lower() on the strings that occur in the model:     *)
(* every string not listed has no outer whitespace / no upper-case letter. *)
Strip(s) ==
    CASE s = " ON "      -> "ON"
      [] s = " cuda "    -> "cuda"
      [] s = " float16 " -> "float16"
      [] s = "  "        -> ""
      [] s = " hello "   -> "hello"
      [] OTHER           -> s

Lower(s) ==
    CASE s = "ON"      -> "on"
      [] s = "True"    -> "true"
      [] s = "No"      -> "no"
      [] s = "CPU"     -> "cpu"
      [] s = "Cuda"    -> "cuda"
      [] s = "INT8"    -> "int8"
      [] s = "Float32" -> "float32"
      [] s = "None"    -> "none"
      [] OTHER         -> s

(* dict.get(key, default) *)
Get(d, key, default) == IF key \in DOMAIN d THEN d[key] ELSE default

----------------------------------------------------------------------------
(* The resolver state threaded through the helpers: the two probe caches,  *)
(* the model cache and the log of external calls.                          *)

Globals == [cache |-> MODEL_CACHE,
            gpu   |-> GPU_CAPABILITY_CACHE,
            libs  |-> CUDA_RUNTIME_LIBS_READY_CACHE,
            calls |-> <<>>]

Log(g, call) == [g EXCEPT !.calls = Append(@, call)]

(* env_flag comparing the raw value *)
env_flag_raw(name, default_value) ==
    LET value == env[name] IN
    IF value = None THEN default_value
    ELSE IF value \in {"1", "true", "yes", "on"} THEN TRUE
    ELSE IF value \in {"0", "false", "no", "off"} THEN FALSE
    ELSE default_value

env_flag(name, default_value) ==
    LET value == env[name] IN
    IF value = None THEN default_value
    ELSE LET normalized == Lower(Strip(value)) IN
         IF normalized \in {"1", "true", "yes", "on"} THEN TRUE
         ELSE IF normalized \in {"0", "false", "no", "off"} THEN FALSE
         ELSE default_value

(* normalize_backend_preference comparing the raw value *)
normalize_backend_preference_exact(raw_backend) ==
    LET normalized == IF raw_backend \in {None, ""} THEN "auto" ELSE raw_backend IN
    IF normalized \in {"cpu", "cuda", "auto"} THEN normalized ELSE "auto"

(* raw_backend is a string or None; (raw_backend or "auto") *)
normalize_backend_preference(raw_backend) ==
    LET normalized == Lower(Strip(IF raw_backend \in {None, ""} THEN "auto" ELSE raw_backend)) IN
    IF normalized \in {"cpu", "cuda", "auto"} THEN normalized ELSE "auto"

cuda_available(g) ==
    IF g.gpu # <<>> THEN [g |-> g, ret |-> g.gpu[1]]
    ELSE IF ~hw.ctranslate2 THEN [g |-> [g EXCEPT !.gpu = <<FALSE>>], ret |-> FALSE]
    ELSE LET g1 == Log(g, [op |-> "get_cuda_device_count"])
             r  == hw.device_count
             v  == IF r = Raised THEN FALSE ELSE r[1] > 0
         IN [g |-> [g1 EXCEPT !.gpu = <<v>>], ret |-> v]

cuda_runtime_libs_ready(g) ==
    IF g.libs # <<>> THEN [g |-> g, ret |-> g.libs[1]]
    ELSE LET g1 == IF hw.ctranslate2
                   THEN Log(g, [op |-> "get_supported_compute_types", device |-> "cuda"])
                   ELSE g
             supported == IF hw.ctranslate2 THEN hw.supported["cuda"] ELSE Raised
         IN IF supported # Raised /\ supported[1] # {}
            THEN [g |-> [g1 EXCEPT !.libs = <<TRUE>>], ret |-> TRUE]
            ELSE LET g2 == Log(g1, [op |-> "WinDLL"]) IN
                 [g |-> [g2 EXCEPT !.libs = <<hw.winDLL>>], ret |-> hw.winDLL]

(* A preference that is not a string (a JSON number) has no strip().       *)
NotAString == "<5>"

(* resolve_requested_backend without the branch for an explicit "cpu" *)
resolve_requested_backend_no_cpu(g, raw_backend) ==
    IF env_flag("VOICEWAVE_FORCE_CPU", FALSE) THEN [g |-> g, ret |-> Ret("cpu")]
    ELSE IF env_flag("VOICEWAVE_FORCE_GPU", FALSE) THEN [g |-> g, ret |-> Ret("cuda")]
    ELSE IF raw_backend = NotAString THEN [g |-> g, ret |-> Raised]
    ELSE LET pref == normalize_backend_preference(raw_backend) IN
         IF pref = "cuda" THEN [g |-> g, ret |-> Ret("cuda")]
         ELSE IF ~env_flag("VOICEWAVE_AUTO_GPU", TRUE) THEN [g |-> g, ret |-> Ret("cpu")]
         ELSE LET a == cuda_available(g) IN
              IF ~a.ret THEN [g |-> a.g, ret |-> Ret("cpu")]
              ELSE LET l == cuda_runtime_libs_ready(a.g) IN
                   [g |-> l.g, ret |-> Ret(IF l.ret THEN "cuda" ELSE "cpu")]

resolve_requested_backend(g, raw_backend) ==
    IF env_flag("VOICEWAVE_FORCE_CPU", FALSE) THEN [g |-> g, ret |-> Ret("cpu")]
    ELSE IF env_flag("VOICEWAVE_FORCE_GPU", FALSE) THEN [g |-> g, ret |-> Ret("cuda")]
    ELSE IF raw_backend = NotAString THEN [g |-> g, ret |-> Raised]
    ELSE LET pref == normalize_backend_preference(raw_backend) IN
         IF pref = "cpu" THEN [g |-> g, ret |-> Ret("cpu")]
         ELSE IF pref = "cuda" THEN [g |-> g, ret |-> Ret("cuda")]
         ELSE IF ~env_flag("VOICEWAVE_AUTO_GPU", TRUE) THEN [g |-> g, ret |-> Ret("cpu")]
         ELSE LET a == cuda_available(g) IN
              IF ~a.ret THEN [g |-> a.g, ret |-> Ret("cpu")]
              ELSE LET l == cuda_runtime_libs_ready(a.g) IN
                   [g |-> l.g, ret |-> Ret(IF l.ret THEN "cuda" ELSE "cpu")]

(* supported_compute_types answering a default set when the query fails *)
supported_compute_types_default(g, device) ==
    IF ~hw.ctranslate2 THEN [g |-> g, ret |-> {"float32"}]
    ELSE LET g1 == Log(g, [op |-> "get_supported_compute_types", device |-> device])
             r  == hw.supported[device]
         IN [g |-> g1, ret |-> IF r = Raised THEN {"float32"} ELSE r[1]]

supported_compute_types(g, device) ==
    IF ~hw.ctranslate2 THEN [g |-> g, ret |-> {}]
    ELSE LET g1 == Log(g, [op |-> "get_supported_compute_types", device |-> device])
             r  == hw.supported[device]
         IN [g |-> g1, ret |-> IF r = Raised THEN {} ELSE r[1]]

(* the cuda list with its first two entries exchanged *)
CudaPreference_swapped == <<"float16", "int8_float16", "int8", "float32", "int8_float32">>

CudaPreference == <<"int8_float16", "float16", "int8", "float32", "int8_float32">>
CpuPreference  == <<"int8", "int8_float32", "float32">>

(* for candidate in preference: if candidate in supported: return candidate *)
RECURSIVE FirstSupported(_, _, _, _)
FirstSupported(preference, i, supported, requested) ==
    IF i > Len(preference) THEN requested
    ELSE IF preference[i] \in supported THEN preference[i]
    ELSE FirstSupported(preference, i + 1, supported, requested)

(* resolve_compute_type without the test that the requested type is supported *)
resolve_compute_type_no_member(g, device, requested_compute_type) ==
    LET requested == Lower(Strip(IF requested_compute_type = "" THEN "int8"
                                 ELSE requested_compute_type))
        s == supported_compute_types(g, device)
        supported == s.ret
    IN IF supported = {} THEN [g |-> s.g, ret |-> requested]
       ELSE [g |-> s.g,
             ret |-> FirstSupported(IF device = "cuda" THEN CudaPreference ELSE CpuPreference,
                                    1, supported, requested)]

resolve_compute_type(g, device, requested_compute_type) ==
    LET requested == Lower(Strip(IF requested_compute_type = "" THEN "int8"
                                 ELSE requested_compute_type))
        s == supported_compute_types(g, device)
        supported == s.ret
    IN IF supported = {} THEN [g |-> s.g, ret |-> requested]
       ELSE IF requested \in supported THEN [g |-> s.g, ret |-> requested]
       ELSE [g |-> s.g,
             ret |-> FirstSupported(IF device = "cuda" THEN CudaPreference ELSE CpuPreference,
                                    1, supported, requested)]

(* WhisperModel(...) returns an instance distinct from the one the cache   *)
(* holds for the key, if any.                                              *)
NewInstance(g, key) ==
    [key |-> key,
     serial |-> IF key \in DOMAIN g.cache THEN g.cache[key].serial + 1 ELSE 1]

(* load_model that does not look in the cache *)
load_model_reload(g, model_id, device, compute_type, o) ==
    LET key == <<model_id, device, compute_type>>
        g1 == Log(g, [op |-> "WhisperModel", key |-> key, ok |-> o.load[device]])
    IN IF ~o.load[device] THEN [g |-> g1, ret |-> Raised]
       ELSE LET model == NewInstance(g, key)
                g2 == [g1 EXCEPT !.cache = [k \in DOMAIN g.cache \cup {key} |->
                                               IF k = key THEN model ELSE g.cache[k]]]
            IN [g |-> Log(g2, [op |-> "load_model", key |-> key, hit |-> FALSE,
                               ms |-> o.ms, model |-> model]),
                ret |-> Ret([model |-> model, hit |-> FALSE, ms |-> o.ms])]

(* o is what the engine does in this request: o.load[device] is whether    *)
(* the WhisperModel constructor returns, o.ms the time it takes.           *)
load_model(g, model_id, device, compute_type, o) ==
    LET key == <<model_id, device, compute_type>> IN
    IF key \in DOMAIN g.cache
    THEN [g |-> Log(g, [op |-> "load_model", key |-> key, hit |-> TRUE, ms |-> 0,
                        model |-> g.cache[key]]),
          ret |-> Ret([model |-> g.cache[key], hit |-> TRUE, ms |-> 0])]
    ELSE LET g1 == Log(g, [op |-> "WhisperModel", key |-> key, ok |-> o.load[device]]) IN
         IF ~o.load[device] THEN [g |-> g1, ret |-> Raised]
         ELSE LET model == NewInstance(g, key)
                  g2 == [g1 EXCEPT !.cache = [k \in DOMAIN g.cache \cup {key} |->
                                                 IF k = key THEN model ELSE g.cache[k]]]
              IN [g |-> Log(g2, [op |-> "load_model", key |-> key, hit |-> FALSE,
                                 ms |-> o.ms, model |-> model]),
                  ret |-> Ret([model |-> model, hit |-> FALSE, ms |-> o.ms])]

----------------------------------------------------------------------------
(* Conversions of request values.  A JSON number is held as its literal;   *)
(* any other value (a word, null) makes int() / float() raise.             *)

IntOf(v) ==
    CASE v = "16000"   -> Ret(16000)
      [] v = "8000"    -> Ret(8000)
      [] v = "16000.7" -> Ret(16000)
      [] v = "2"       -> Ret(2)
      [] v = "1"       -> Ret(1)
      [] OTHER         -> Raised

FloatOf(v) ==
    CASE v = "0.0" -> Ret("0.0")
      [] v = "0.6" -> Ret("0.6")
      [] v = "2"   -> Ret("2.0")
      [] OTHER     -> Raised

(* str(compute_type) *)
Str(v) == IF v = None THEN "None" ELSE v

(* len(base64.b64decode(s)), or the decoder raises *)
B64DecodedLen(s) ==
    CASE s = "AAA="     -> Ret(2)
      [] s = "AAAAAAA=" -> Ret(5)
      [] s = "AAAA"     -> Ret(3)
      [] s = "AA=="     -> Ret(1)
      [] OTHER          -> Raised

(* Path(audio_path).exists() *)
Files == {"/tmp/a.wav"}

FirstErr(o, device, loaded) ==
    IF ~loaded THEN "model load failed on " \o device ELSE "decode failed on " \o device

(* sum(xs) / len(xs) if xs else 0.0, on metrics held in hundredths *)
RECURSIVE Sum(_, _)
Sum(xs, i) == IF i > Len(xs) THEN 0 ELSE xs[i] + Sum(xs, i + 1)
Mean(xs) == IF Len(xs) = 0 THEN 0 ELSE Sum(xs, 1) \div Len(xs)

(* parts: the non-empty stripped segment texts; " ".join(parts).strip() *)
RECURSIVE JoinText(_, _)
JoinText(segments, i) ==
    IF i > Len(segments) THEN ""
    ELSE LET text == Strip(segments[i].text)
             rest == JoinText(segments, i + 1)
         IN IF text = "" THEN rest
            ELSE IF rest = "" THEN text
            ELSE text \o " " \o rest

Field(seq, f) == [i \in 1..Len(seq) |-> seq[i][f]]

----------------------------------------------------------------------------
(* transcribe and prefetch.  Both return [g, ret]: ret is <<response>>, or *)
(* Raised when an exception leaves the function.  o is what the engine and *)
(* the clock do during the request: o.load[device], o.decode[device]       *)
(* (whether WhisperModel(...) / model.transcribe(...) return), o.ms,       *)
(* o.decode_ms, o.segments.                                                *)

(* a failure response that drops the request's id *)
Fail_null_id(request_id, error) == [id |-> None, ok |-> FALSE, error |-> error]

Fail(request_id, error) == [id |-> request_id, ok |-> FALSE, error |-> error]

ThresholdKeys == {"temperature", "noSpeechThreshold", "logProbThreshold",
                  "compressionRatioThreshold"}

(* The stages below each take the value the stage before computed, in the  *)
(* order of the source; rq holds the request's locals: request_id,         *)
(* model_id, compute_type_requested, allow_backend_fallback, thresholds_ok *)
(* (every float(...) of worker.py:238-247 returns), with_decode (FALSE for *)
(* prefetch, which only loads) and what ("Transcription" / "Prefetch").    *)

(* a try block in which a model served from the cache does not decode *)
Attempted_cached_fails(l, device, o, with_decode) ==
    IF l.ret = Raised
    THEN [g |-> l.g, ok |-> FALSE, loaded |-> FALSE, hit |-> FALSE, ms |-> 0]
    ELSE IF ~with_decode
    THEN [g |-> l.g, ok |-> TRUE, loaded |-> TRUE, hit |-> l.ret[1].hit, ms |-> l.ret[1].ms]
    ELSE [g |-> Log(l.g, [op |-> "transcribe", device |-> device,
                          ok |-> o.decode[device] /\ ~l.ret[1].hit]),
          ok |-> o.decode[device] /\ ~l.ret[1].hit, loaded |-> TRUE,
          hit |-> l.ret[1].hit, ms |-> l.ret[1].ms]

(* worker.py:253-257 and 270-276: the try block, after load_model          *)
Attempted(l, device, o, with_decode) ==
    IF l.ret = Raised
    THEN [g |-> l.g, ok |-> FALSE, loaded |-> FALSE, hit |-> FALSE, ms |-> 0]
    ELSE IF ~with_decode
    THEN [g |-> l.g, ok |-> TRUE, loaded |-> TRUE, hit |-> l.ret[1].hit, ms |-> l.ret[1].ms]
    ELSE [g |-> Log(l.g, [op |-> "transcribe", device |-> device, ok |-> o.decode[device]]),
          ok |-> o.decode[device], loaded |-> TRUE,
          hit |-> l.ret[1].hit, ms |-> l.ret[1].ms]

Attempt(g, model_id, device, compute_type, o, with_decode) ==
    Attempted(load_model(g, model_id, device, compute_type, o), device, o, with_decode)

(* worker.py:287-327 and 380-390 *)
Success(g, rq, o, backend_requested, backend_used, compute_type_used, fallback, hit, ms) ==
    [g |-> g,
     ret |-> Ret([id |-> rq.request_id, ok |-> TRUE, modelInitMs |-> ms,
                  runtimeCacheHit |-> hit,
                  backendRequested |-> backend_requested,
                  backendUsed |-> backend_used,
                  backendFallback |-> fallback,
                  computeTypeRequested |-> rq.compute_type_requested,
                  computeTypeUsed |-> compute_type_used]
                 @@ IF rq.with_decode
                    THEN [text |-> JoinText(o.segments, 1),
                          decodeComputeMs |-> o.decode_ms,
                          segmentCount |-> Len(o.segments),
                          avgLogProb |-> Mean(Field(o.segments, "avg_logprob")),
                          noSpeechProb |-> Mean(Field(o.segments, "no_speech_prob")),
                          compressionRatio |-> Mean(Field(o.segments, "compression_ratio"))]
                    ELSE <<>>)]

(* the cpu attempt reported with the backend of the first attempt *)
FallbackAttempted_stale(second, first, rq, o, backend_requested, compute_type_used) ==
    IF second.ok
    THEN Success(second.g, rq, o, backend_requested, backend_requested, compute_type_used,
                 FALSE, first.hit /\ second.hit, first.ms + second.ms)
    ELSE [g |-> second.g,
          ret |-> Ret(Fail(rq.request_id,
                           rq.what \o " failed (" \o backend_requested \o "/"
                           \o rq.compute_type_requested \o ") with fallback (cpu/"
                           \o compute_type_used \o "): " \o FirstErr(o, "cpu", second.loaded)))]

(* worker.py:269-285 and 365-379: after the cpu attempt *)
FallbackAttempted(second, first, rq, o, backend_requested, compute_type_used) ==
    IF second.ok
    THEN Success(second.g, rq, o, backend_requested, "cpu", compute_type_used, TRUE,
                 first.hit /\ second.hit, first.ms + second.ms)
    ELSE [g |-> second.g,
          ret |-> Ret(Fail(rq.request_id,
                           rq.what \o " failed (" \o backend_requested \o "/"
                           \o rq.compute_type_requested \o ") with fallback (cpu/"
                           \o compute_type_used \o "): " \o FirstErr(o, "cpu", second.loaded)))]

(* a second attempt made on the backend of the first *)
Fallback_same_backend(c2, first, rq, o, backend_requested) ==
    FallbackAttempted(Attempt(c2.g, rq.model_id, backend_requested, c2.ret, o, rq.with_decode),
                      first, rq, o, backend_requested, c2.ret)

(* worker.py:266-268 and 362-364: c2 is resolve_compute_type("cpu", ...) *)
Fallback(c2, first, rq, o, backend_requested) ==
    FallbackAttempted(Attempt(c2.g, rq.model_id, "cpu", c2.ret, o, rq.with_decode),
                      first, rq, o, backend_requested, c2.ret)

(* a first attempt followed by the cpu attempt whether or not the request  *)
(* allows it                                                               *)
FirstAttempted_always_falls_back(first, rq, o, backend_requested, compute_type_used) ==
    IF first.ok
    THEN Success(first.g, rq, o, backend_requested, backend_requested, compute_type_used,
                 FALSE, first.hit, first.ms)
    ELSE IF backend_requested # "cuda"
    THEN [g |-> first.g,
          ret |-> Ret(Fail(rq.request_id,
                           rq.what \o " failed (" \o backend_requested \o "/"
                           \o compute_type_used \o "): "
                           \o FirstErr(o, backend_requested, first.loaded)))]
    ELSE Fallback(resolve_compute_type(first.g, "cpu", rq.compute_type_requested),
                  first, rq, o, backend_requested)

(* worker.py:258-264 and 355-361: after the first attempt *)
FirstAttempted(first, rq, o, backend_requested, compute_type_used) ==
    IF first.ok
    THEN Success(first.g, rq, o, backend_requested, backend_requested, compute_type_used,
                 FALSE, first.hit, first.ms)
    ELSE IF backend_requested # "cuda" \/ ~rq.allow_backend_fallback
    THEN [g |-> first.g,
          ret |-> Ret(Fail(rq.request_id,
                           rq.what \o " failed (" \o backend_requested \o "/"
                           \o compute_type_used \o "): "
                           \o FirstErr(o, backend_requested, first.loaded)))]
    ELSE Fallback(resolve_compute_type(first.g, "cpu", rq.compute_type_requested),
                  first, rq, o, backend_requested)

(* worker.py:229-255 and 349-354: c is resolve_compute_type(backend_used, ...) *)
Negotiated(c, rq, o, backend_requested) ==
    IF ~rq.thresholds_ok THEN [g |-> c.g, ret |-> Raised]
    ELSE FirstAttempted(Attempt(c.g, rq.model_id, backend_requested, c.ret, o, rq.with_decode),
                        rq, o, backend_requested, c.ret)

(* worker.py:223-227 and 344-348: b is resolve_requested_backend(...) *)
Resolved(b, rq, o) ==
    IF b.ret = Raised THEN [g |-> b.g, ret |-> Raised]
    ELSE Negotiated(resolve_compute_type(b.g, b.ret[1], rq.compute_type_requested),
                    rq, o, b.ret[1])

Orchestrate(g, req, o, with_decode) ==
    Resolved(resolve_requested_backend(g, Get(req, "backendPreference", "auto")),
             [request_id |-> Get(req, "id", None),
              model_id |-> Get(req, "modelId", None),
              compute_type_requested |-> Str(Get(req, "computeType", "int8")),
              allow_backend_fallback |-> Get(req, "allowBackendFallback", TRUE),
              thresholds_ok |-> \A k \in ThresholdKeys :
                                   Get(req, k, None) = None \/ FloatOf(req[k]) # Raised,
              with_decode |-> with_decode,
              what |-> IF with_decode THEN "Transcription" ELSE "Prefetch"],
             o)

UnsupportedModel(model_id) ==
    "Unsupported model ID: " \o model_id \o ". Allowed: small.en, large-v3"

transcribe(g, req, o) ==
    LET request_id == Get(req, "id", None)
        audio_path == Get(req, "audioPath", None)
        audio_pcm16_b64 == Get(req, "audioPcm16B64", None)
        sample_rate_hz == IntOf(Get(req, "sampleRateHz", "16000"))
        model_id == Get(req, "modelId", None)
        beam_size == IntOf(Get(req, "beamSize", "2"))
        best_of == IntOf(Get(req, "bestOf", "1"))
    IN
    IF sample_rate_hz = Raised \/ beam_size = Raised \/ best_of = Raised
    THEN [g |-> g, ret |-> Raised]
    ELSE IF model_id \in {None, ""}
    THEN [g |-> g, ret |-> Ret(Fail(request_id, "Model ID is required."))]
    ELSE IF model_id \notin ALLOWED_MODELS
    THEN [g |-> g, ret |-> Ret(Fail(request_id, UnsupportedModel(model_id)))]
    ELSE IF sample_rate_hz[1] # 16000
    THEN [g |-> g,
          ret |-> Ret(Fail(request_id,
                           "Unsupported sample rate: " \o ToString(sample_rate_hz[1])
                           \o ". Expected 16000 Hz."))]
    ELSE IF audio_pcm16_b64 # None /\ Strip(audio_pcm16_b64) # ""
    THEN IF B64DecodedLen(audio_pcm16_b64) = Raised
         THEN [g |-> g,
               ret |-> Ret(Fail(request_id, "Invalid in-memory PCM payload: Invalid base64-encoded string"))]
         ELSE IF B64DecodedLen(audio_pcm16_b64)[1] % 2 # 0
         THEN [g |-> g, ret |-> Ret(Fail(request_id, "Invalid in-memory PCM payload length."))]
         ELSE Orchestrate(g, req, o, TRUE)
    ELSE IF audio_path \notin {None, ""} /\ audio_path \in Files
    THEN Orchestrate(g, req, o, TRUE)
    ELSE [g |-> g,
          ret |-> Ret(Fail(request_id,
                  "Audio payload is missing. Provide audioPcm16B64 or a valid audioPath."))]

(* a prefetch that runs the decode stage *)
prefetch_decodes(g, req, o) ==
    IF Get(req, "modelId", None) \notin ALLOWED_MODELS
    THEN [g |-> g, ret |-> Ret(Fail(Get(req, "id", None), "Model ID is required."))]
    ELSE Orchestrate(g, req, o, TRUE)

prefetch(g, req, o) ==
    LET request_id == Get(req, "id", None)
        model_id == Get(req, "modelId", None)
    IN
    IF model_id \in {None, ""}
    THEN [g |-> g, ret |-> Ret(Fail(request_id, "Model ID is required."))]
    ELSE IF model_id \notin ALLOWED_MODELS
    THEN [g |-> g, ret |-> Ret(Fail(request_id, UnsupportedModel(model_id)))]
    ELSE Orchestrate(g, req, o, FALSE)

----------------------------------------------------------------------------
(* The inputs of the model. *)

FlagNames == {"VOICEWAVE_FORCE_CPU", "VOICEWAVE_FORCE_GPU", "VOICEWAVE_AUTO_GPU"}
Devices == {"cuda", "cpu"}

(* Compute types ctranslate2 can report. *)
ComputeTypes == {"int8", "int8_float32", "int8_float16", "int8_bfloat16", "int16",
                 "float16", "bfloat16", "float32"}

(* Environments and machines of the request-loop specification. *)
Envs ==
    {[n \in FlagNames |-> IF n = "VOICEWAVE_FORCE_CPU" THEN c
                          ELSE IF n = "VOICEWAVE_FORCE_GPU" THEN f ELSE a] :
        c \in {None, "1"}, f \in {None, " ON "}, a \in {None, "No"}}

Machines ==
    {[ctranslate2 |-> FALSE, device_count |-> Raised, winDLL |-> FALSE,
      supported |-> [d \in Devices |-> Raised]],
     [ctranslate2 |-> TRUE, device_count |-> Ret(1), winDLL |-> FALSE,
      supported |-> [d \in Devices |-> IF d = "cuda" THEN Ret({"float16", "float32", "int8"})
                                       ELSE Ret({"int8", "float32"})]],
     [ctranslate2 |-> TRUE, device_count |-> Ret(1), winDLL |-> TRUE,
      supported |-> [d \in Devices |-> IF d = "cuda" THEN Raised ELSE Ret({"float32"})]],
     [ctranslate2 |-> TRUE, device_count |-> Ret(0), winDLL |-> TRUE,
      supported |-> [d \in Devices |-> IF d = "cuda" THEN Ret({}) ELSE Ret({"int8"})]]}

Segment(text, lp, ns, cr) ==
    [text |-> text, avg_logprob |-> lp, no_speech_prob |-> ns, compression_ratio |-> cr]

(* A model that failed to load decodes nothing, and a request in which no   *)
(* decode returns yields no segments.                                      *)
Outcomes ==
    {o \in [load : [Devices -> BOOLEAN], decode : [Devices -> BOOLEAN], ms : {LoadMs},
            decode_ms : {DecodeMs},
            segments : {<<>>, <<Segment(" hello ", -30, 10, 120), Segment("  ", -50, 60, 100),
                               Segment("world", -10, 0, 140)>>}] :
        /\ \A d \in Devices : o.decode[d] => o.load[d]
        /\ (\A d \in Devices : ~o.decode[d]) => o.segments = <<>>}

(* prefetch never decodes *)
LoadOutcomes == {o \in Outcomes : \A d \in Devices : ~o.decode[d]}

AnyOutcome == CHOOSE o \in LoadOutcomes : \A d \in Devices : ~o.load[d]

Base == [modelId |-> "small.en", audioPcm16B64 |-> "AAA="]
With(r, k, v) == (k :> v) @@ r

(* transcribe requests that pass validation and conversion *)
TranscribeReqs ==
    {With(Base, "command", "transcribe"),
     With(With(Base, "id", "r1"), "backendPreference", "cpu"),
     With(With(Base, "id", "r1"), "backendPreference", "cuda"),
     [id |-> "r1", modelId |-> "small.en", audioPcm16B64 |-> "AAA=",
      backendPreference |-> "cuda", allowBackendFallback |-> FALSE],
     [id |-> "r2", modelId |-> "small.en", audioPcm16B64 |-> "AAA=",
      backendPreference |-> " cuda ", computeType |-> "INT8", temperature |-> "0.6"],
     [id |-> "r2", modelId |-> "large-v3", audioPath |-> "/tmp/a.wav", sampleRateHz |-> "16000",
      computeType |-> " float16 "],
     With(With(Base, "id", "r2"), "sampleRateHz", "16000.7")}

(* transcribe requests that end before the engine is reached *)
RejectedReqs ==
    {With(Base, "modelId", m) : m \in {None, "", "ghost-model"}}
    \cup {With(With(Base, "id", "r2"), "sampleRateHz", v) : v \in {"8000", "abc"}}
    \cup {With(With(Base, "id", "r2"), "audioPcm16B64", v) : v \in {"AAAA", "A", "  ", None}}
    \cup {[id |-> "r2", audioPcm16B64 |-> "AAA="],
          [id |-> "r2", modelId |-> "large-v3", audioPath |-> "/tmp/missing.wav"],
          [id |-> "r2", modelId |-> "ghost-model", sampleRateHz |-> "8000"],
          With(With(Base, "id", "r2"), "beamSize", "wide"),
          With(With(Base, "id", "r2"), "temperature", "hot"),
          With(With(Base, "id", "r1"), "backendPreference", NotAString)}

PrefetchReqs ==
    {With(r, "command", "prefetch") :
        r \in {[id |-> "r1", modelId |-> "small.en", sampleRateHz |-> "8000"],
               [modelId |-> "large-v3", backendPreference |-> "cuda"],
               [id |-> "r1", modelId |-> "small.en", backendPreference |-> "cuda",
                allowBackendFallback |-> FALSE],
               [id |-> "r1", modelId |-> "small.en", backendPreference |-> "cpu",
                computeType |-> "Float32"]}}

RejectedPrefetchReqs ==
    {With(r, "command", "prefetch") :
        r \in {[id |-> "r2", modelId |-> "ghost-model"],
               [id |-> "r2"],
               [id |-> "r2", modelId |-> "small.en", backendPreference |-> NotAString]}}

OtherReqs ==
    {[command |-> "shutdown"], [command |-> "shutdown", id |-> "r1"],
     [command |-> "status", id |-> "r1"], [command |-> "status"]}

----------------------------------------------------------------------------
(* main *)

Init ==
    /\ env \in Envs
    /\ hw \in Machines
    /\ MODEL_CACHE = <<>>
    /\ GPU_CAPABILITY_CACHE = <<>>
    /\ CUDA_RUNTIME_LIBS_READY_CACHE = <<>>
    /\ pc = "start"
    /\ nRead = 0
    /\ nReq = 0
    /\ nOut = 0
    /\ nExc = 0
    /\ line = [kind |-> "none"]
    /\ resp = [none |-> TRUE]
    /\ calls = <<>>
    /\ probe = [fn |-> "none"]

(* a start of main that prints nothing *)
Start_silent ==
    /\ pc = "start"
    /\ pc' = "loop"
    /\ UNCHANGED <<env, hw, MODEL_CACHE, GPU_CAPABILITY_CACHE, CUDA_RUNTIME_LIBS_READY_CACHE,
                   nRead, nReq, nOut, nExc, line, resp, calls, probe>>

(* worker.py:394 *)
Start ==
    /\ pc = "start"
    /\ pc' = "loop"
    /\ nOut' = nOut + 1
    /\ resp' = [ready |-> TRUE]
    /\ UNCHANGED <<env, hw, MODEL_CACHE, GPU_CAPABILITY_CACHE, CUDA_RUNTIME_LIBS_READY_CACHE,
                   nRead, nReq, nExc, line, calls, probe>>

(* worker.py:423-434: the except clause prints one line *)
WorkerException ==
    [id |-> None, ok |-> FALSE, error |-> "Worker exception", traceback |-> "Traceback"]

(* an except clause that prints nothing *)
Caught_silent(g) == [g |-> g, out |-> <<>>, exit |-> FALSE, exc |-> TRUE]

(* an except clause that ends main after its line *)
Caught_return(g) == [g |-> g, out |-> <<WorkerException>>, exit |-> TRUE, exc |-> TRUE]

Caught(g) == [g |-> g, out |-> <<WorkerException>>, exit |-> FALSE, exc |-> TRUE]

(* worker.py:406, 421-422: print(json.dumps(...)) of what the handler returned *)
Reply(r) ==
    IF r.ret = Raised THEN Caught(r.g)
    ELSE [g |-> r.g, out |-> <<r.ret[1]>>, exit |-> FALSE, exc |-> FALSE]

(* an iteration whose shutdown branch prints the acknowledgement and goes  *)
(* on reading                                                              *)
Iteration_no_return(g, l, o) ==
    IF l.kind # "object" THEN Caught(g)
    ELSE IF Get(l.req, "command", "transcribe") = "shutdown"
    THEN [g |-> g, out |-> <<[ok |-> TRUE, shutdown |-> TRUE]>>, exit |-> FALSE, exc |-> FALSE]
    ELSE IF Get(l.req, "command", "transcribe") = "prefetch"
    THEN Reply(prefetch(g, l.req, o))
    ELSE IF Get(l.req, "command", "transcribe") # "transcribe"
    THEN [g |-> g,
          out |-> <<Fail(Get(l.req, "id", None),
                         "Unsupported command: " \o Get(l.req, "command", "transcribe"))>>,
          exit |-> FALSE, exc |-> FALSE]
    ELSE Reply(transcribe(g, l.req, o))

(* worker.py:396-434, one iteration on a non-blank line l: the globals     *)
(* afterwards, the lines printed, whether main returns and whether the     *)
(* except clause ran.  json.loads raises on a malformed line and req.get   *)
(* on a JSON value that is not an object.                                  *)
Iteration(g, l, o) ==
    IF l.kind # "object" THEN Caught(g)
    ELSE IF Get(l.req, "command", "transcribe") = "shutdown"
    THEN [g |-> g, out |-> <<[ok |-> TRUE, shutdown |-> TRUE]>>, exit |-> TRUE, exc |-> FALSE]
    ELSE IF Get(l.req, "command", "transcribe") = "prefetch"
    THEN Reply(prefetch(g, l.req, o))
    ELSE IF Get(l.req, "command", "transcribe") # "transcribe"
    THEN [g |-> g,
          out |-> <<Fail(Get(l.req, "id", None),
                         "Unsupported command: " \o Get(l.req, "command", "transcribe"))>>,
          exit |-> FALSE, exc |-> FALSE]
    ELSE Reply(transcribe(g, l.req, o))

(* worker.py:395-398: a blank line is skipped *)
SkipBlank ==
    /\ pc = "loop"
    /\ nRead < MaxLines
    /\ nRead' = nRead + 1
    /\ line' = [kind |-> "blank"]
    /\ calls' = <<>>
    /\ UNCHANGED <<env, hw, MODEL_CACHE, GPU_CAPABILITY_CACHE, CUDA_RUNTIME_LIBS_READY_CACHE,
                   pc, nReq, nOut, nExc, resp, probe>>

(* The effect of one iteration `it` on the line l. *)
Commit(it, l) ==
    /\ MODEL_CACHE' = it.g.cache
    /\ GPU_CAPABILITY_CACHE' = it.g.gpu
    /\ CUDA_RUNTIME_LIBS_READY_CACHE' = it.g.libs
    /\ calls' = it.g.calls
    /\ resp' = IF it.out = <<>> THEN resp ELSE it.out[Len(it.out)]
    /\ pc' = IF it.exit THEN "exited" ELSE "loop"
    /\ nRead' = nRead + 1
    /\ nReq' = nReq + 1
    /\ nOut' = nOut + Len(it.out)
    /\ nExc' = nExc + (IF it.exc THEN 1 ELSE 0)
    /\ line' = l
    /\ UNCHANGED <<env, hw, probe>>

(* The line read: a JSON object (the request), or text json.loads rejects  *)
(* ("malformed"), or a JSON value that is not an object ("nonobject").     *)
Line(kind, req) == IF kind = "object" THEN [kind |-> kind, req |-> req] ELSE [kind |-> kind]

Handle(kind, req, o) ==
    /\ pc = "loop"
    /\ nRead < MaxLines
    /\ Commit(Iteration(Globals, Line(kind, req), o), Line(kind, req))

(* json.loads raises, or the value parsed is not an object *)
HandleBadLine == \E k \in {"malformed", "nonobject"} : Handle(k, None, AnyOutcome)

HandleTranscribe ==
    \E req \in TranscribeReqs, o \in Outcomes : Handle("object", req, o)

HandlePrefetch ==
    \E req \in PrefetchReqs, o \in LoadOutcomes : Handle("object", req, o)

HandleOther ==
    \E req \in RejectedReqs \cup RejectedPrefetchReqs \cup OtherReqs :
        Handle("object", req, AnyOutcome)

(* worker.py:395, 435: stdin is at its end *)
EndOfInput ==
    /\ pc = "loop"
    /\ pc' = "exited"
    /\ UNCHANGED <<env, hw, MODEL_CACHE, GPU_CAPABILITY_CACHE, CUDA_RUNTIME_LIBS_READY_CACHE,
                   nRead, nReq, nOut, nExc, line, resp, calls, probe>>

Next ==
    \/ Start
    \/ SkipBlank
    \/ HandleBadLine
    \/ HandleTranscribe
    \/ HandlePrefetch
    \/ HandleOther
    \/ EndOfInput

Spec == Init /\ [][Next]_vars

----------------------------------------------------------------------------
(* resolve_requested_backend applied on its own, over every raw value of   *)
(* the force-CPU variable and every machine.                               *)

EnvTokens == {None, "1", "true", "yes", "on", "0", "false", "no", "off",
              " ON ", "True", "No", "maybe", ""}

BackendEnvs ==
    {[n \in FlagNames |-> IF n = "VOICEWAVE_FORCE_CPU" THEN c
                          ELSE IF n = "VOICEWAVE_FORCE_GPU" THEN f ELSE a] :
        c \in EnvTokens, f \in {None, "yes", "off"}, a \in {None, "True", "0"}}

BackendMachines ==
    {[ctranslate2 |-> FALSE, device_count |-> Raised, winDLL |-> w,
      supported |-> [d \in Devices |-> Raised]] : w \in BOOLEAN}
    \cup {[ctranslate2 |-> TRUE, device_count |-> n, winDLL |-> w,
           supported |-> [d \in Devices |-> IF d = "cuda" THEN s ELSE Ret({"int8"})]] :
             n \in {Raised, Ret(0), Ret(1)}, w \in BOOLEAN,
             s \in {Raised, Ret({}), Ret({"float16"})}}

Preferences == {None, "", "cpu", "cuda", "auto", " cuda ", "CPU", "tpu", NotAString}

InitBackend ==
    /\ env \in BackendEnvs
    /\ hw \in BackendMachines
    /\ MODEL_CACHE = <<>>
    /\ GPU_CAPABILITY_CACHE = <<>>
    /\ CUDA_RUNTIME_LIBS_READY_CACHE = <<>>
    /\ pc = "resolver"
    /\ nRead = 0
    /\ nReq = 0
    /\ nOut = 0
    /\ nExc = 0
    /\ line = [kind |-> "none"]
    /\ resp = [none |-> TRUE]
    /\ calls = <<>>
    /\ probe = [fn |-> "none"]

(* The effect of a resolver call that returned r. *)
Called(r, call) ==
    /\ GPU_CAPABILITY_CACHE' = r.g.gpu
    /\ CUDA_RUNTIME_LIBS_READY_CACHE' = r.g.libs
    /\ calls' = r.g.calls
    /\ probe' = call @@ [ret |-> r.ret, gpu_before |-> GPU_CAPABILITY_CACHE,
                         libs_before |-> CUDA_RUNTIME_LIBS_READY_CACHE]
    /\ UNCHANGED <<env, hw, MODEL_CACHE, pc, nRead, nReq, nOut, nExc, line, resp>>

CallResolveBackend ==
    /\ pc = "resolver"
    /\ \E raw_backend \in Preferences :
           Called(resolve_requested_backend(Globals, raw_backend),
                  [fn |-> "resolve_requested_backend", raw_backend |-> raw_backend])

SpecBackend == InitBackend /\ [][CallResolveBackend]_vars

----------------------------------------------------------------------------
(* resolve_compute_type applied on its own, over every set of compute      *)
(* types ctranslate2 can report.                                           *)

ComputeMachines ==
    {[ctranslate2 |-> c, device_count |-> Ret(1), winDLL |-> FALSE,
      supported |-> [d \in Devices |-> s]] :
        c \in BOOLEAN, s \in {Raised} \cup {Ret(S) : S \in SUBSET ComputeTypes}}

RequestedTypes == {"int8", "INT8", " float16 ", "float16", "Float32", "int8_float16",
                   "bfloat16", "int16", "", "auto"}

InitCompute ==
    /\ env = [n \in FlagNames |-> None]
    /\ hw \in ComputeMachines
    /\ MODEL_CACHE = <<>>
    /\ GPU_CAPABILITY_CACHE = <<>>
    /\ CUDA_RUNTIME_LIBS_READY_CACHE = <<>>
    /\ pc = "resolver"
    /\ nRead = 0
    /\ nReq = 0
    /\ nOut = 0
    /\ nExc = 0
    /\ line = [kind |-> "none"]
    /\ resp = [none |-> TRUE]
    /\ calls = <<>>
    /\ probe = [fn |-> "none"]

CallResolveComputeType ==
    /\ pc = "resolver"
    /\ \E device \in Devices, requested_compute_type \in RequestedTypes :
           Called(resolve_compute_type(Globals, device, requested_compute_type),
                  [fn |-> "resolve_compute_type", device |-> device,
                   requested_compute_type |-> requested_compute_type])

SpecCompute == InitCompute /\ [][CallResolveComputeType]_vars

----------------------------------------------------------------------------
(* The same transcribe request issued twice to main, the engine doing the  *)
(* same both times (o), after at most one other request has filled the     *)
(* model cache.  probe records the request, what the engine does, how many *)
(* times the request has been issued and the response printed before.      *)

OutcomeKey(o) ==
    [load_cuda |-> o.load["cuda"], load_cpu |-> o.load["cpu"],
     decode_cuda |-> o.decode["cuda"], decode_cpu |-> o.decode["cpu"],
     segments |-> Len(o.segments)]

(* The effect of the iteration `it` on the n-th issue of req. *)
Issue(it, req, key, n) ==
    /\ MODEL_CACHE' = it.g.cache
    /\ GPU_CAPABILITY_CACHE' = it.g.gpu
    /\ CUDA_RUNTIME_LIBS_READY_CACHE' = it.g.libs
    /\ calls' = it.g.calls
    /\ resp' = IF it.out = <<>> THEN resp ELSE it.out[Len(it.out)]
    /\ pc' = IF it.exit THEN "exited" ELSE "loop"
    /\ nRead' = nRead + 1
    /\ nReq' = nReq + 1
    /\ nOut' = nOut + Len(it.out)
    /\ nExc' = nExc + (IF it.exc THEN 1 ELSE 0)
    /\ line' = Line("object", req)
    /\ probe' = [fn |-> "transcribe", req |-> req, o |-> key, n |-> n, before |-> resp]
    /\ UNCHANGED <<env, hw>>

(* an earlier prefetch request *)
Warm ==
    /\ pc = "loop"
    /\ probe.fn = "none"
    /\ nReq = 0
    /\ \E req \in PrefetchReqs, o \in LoadOutcomes :
           Commit(Iteration(Globals, Line("object", req), o), Line("object", req))

IssueFirst ==
    /\ pc = "loop"
    /\ probe.fn = "none"
    /\ \E req \in TranscribeReqs, o \in Outcomes :
           Issue(Iteration(Globals, Line("object", req), o), req, OutcomeKey(o), 1)

IssueAgain ==
    /\ pc = "loop"
    /\ probe.fn = "transcribe"
    /\ probe.n = 1
    /\ \E o \in Outcomes :
           /\ OutcomeKey(o) = probe.o
           /\ Issue(Iteration(Globals, Line("object", probe.req), o), probe.req, probe.o, 2)

NextTwice ==
    \/ Start
    \/ Warm
    \/ IssueFirst
    \/ IssueAgain

SpecTwice == Init /\ [][NextTwice]_vars

----------------------------------------------------------------------------
(* Properties. *)

IsRequestLine == line.kind \in {"malformed", "nonobject", "object"}
IsObject == line.kind = "object"
Command == Get(line.req, "command", "transcribe")
IsResponse(r) == "ok" \in DOMAIN r
HasTrace(r) == "traceback" \in DOMAIN r
Handled == nReq' = nReq + 1      \* the step is one iteration on a non-blank line

(* C1: every non-blank line read so far has been answered by exactly one   *)
(* output line, printed in the iteration that read it (so in input order), *)
(* whatever its outcome; after the ready line the output holds one line    *)
(* per request and nothing else, and a shutdown request is answered by the *)
(* acknowledgement, after which main has returned.                         *)
C1_OneResponsePerRequest ==
    /\ pc = "start" => nOut = 0 /\ nReq = 0
    /\ pc \in {"loop", "exited"} => nOut = nReq + 1
    /\ nReq <= nRead
    /\ IsRequestLine => IsResponse(resp)
    /\ line.kind \in {"malformed", "nonobject"} => resp.ok = FALSE
    /\ (IsObject /\ Command = "shutdown") => resp = [ok |-> TRUE, shutdown |-> TRUE] /\ pc = "exited"

C1_Witness ==
    /\ nReq = 2 /\ nOut = 3 /\ nExc = 1
    /\ IsObject /\ Command = "transcribe"
    /\ IsResponse(resp) /\ resp.ok

(* C2 as stated: the response to a request carries the request's id (a     *)
(* response without an id field is read as id null).                       *)
C2_Original ==
    IsObject => Get(resp, "id", None) = Get(line.req, "id", None)

(* C2 (amended): the response to a request carries the request's id (null  *)
(* when it has none) whenever the request is answered by transcribe, by    *)
(* prefetch or as an unknown command without an exception escaping;  the   *)
(* shutdown acknowledgement carries no id, and the response of the except  *)
(* clause carries id null whatever the request's id.                       *)
C2_IdRoundTrip ==
    IsObject =>
        IF Command = "shutdown" THEN "id" \notin DOMAIN resp
        ELSE IF HasTrace(resp) THEN resp.id = None
        ELSE resp.id = Get(line.req, "id", None)

C2_Witness ==
    /\ IsObject /\ Command = "transcribe" /\ Get(line.req, "id", None) = "r1"
    /\ resp.ok /\ resp.id = "r1" /\ resp.backendFallback

(* C3 as stated: an iteration that ends in the except clause prints a      *)
(* failure with id null and a trace, the loop goes on, and the model cache *)
(* and both probe caches are as they were before the line.                 *)
C3_Original ==
    [][(Handled /\ nExc' = nExc + 1) =>
          /\ resp' = WorkerException
          /\ pc' = "loop"
          /\ MODEL_CACHE' = MODEL_CACHE
          /\ GPU_CAPABILITY_CACHE' = GPU_CAPABILITY_CACHE
          /\ CUDA_RUNTIME_LIBS_READY_CACHE' = CUDA_RUNTIME_LIBS_READY_CACHE]_vars

(* C3 (amended): a malformed line, a line that is not an object and any    *)
(* exception that escapes a handler are answered by a failure with id null *)
(* and a trace; the loop goes on; the model cache is as it was before the  *)
(* line and a probe cache that was set keeps its value (a probe cache that *)
(* was unset may have been set before the exception was raised).           *)
C3_ProtocolFailure ==
    [][/\ (Handled /\ line'.kind \in {"malformed", "nonobject"}) => nExc' = nExc + 1
       /\ (Handled /\ nExc' = nExc + 1) =>
              /\ nOut' = nOut + 1
              /\ resp'.id = None /\ resp'.ok = FALSE /\ HasTrace(resp')
              /\ pc' = "loop"
              /\ MODEL_CACHE' = MODEL_CACHE
              /\ GPU_CAPABILITY_CACHE # <<>> => GPU_CAPABILITY_CACHE' = GPU_CAPABILITY_CACHE
              /\ CUDA_RUNTIME_LIBS_READY_CACHE # <<>> =>
                     CUDA_RUNTIME_LIBS_READY_CACHE' = CUDA_RUNTIME_LIBS_READY_CACHE]_vars

(* a request answered after an earlier protocol-level failure, with the    *)
(* model cache filled                                                      *)
C3_Witness ==
    /\ nExc = 1 /\ nReq = 2
    /\ IsObject /\ IsResponse(resp) /\ resp.ok /\ ~HasTrace(resp)
    /\ MODEL_CACHE # <<>>

(* The external calls of the last iteration. *)
Called_(op) == {i \in 1..Len(calls) : calls[i].op = op}
CudaLoadRaised == \E i \in Called_("WhisperModel") : calls[i].key[2] = "cuda" /\ ~calls[i].ok
CudaDecodeRaised == \E i \in Called_("transcribe") : calls[i].device = "cuda" /\ ~calls[i].ok
CpuDecodeReturned == \E i \in Called_("transcribe") : calls[i].device = "cpu" /\ calls[i].ok
CudaAttempted ==
    \/ \E i \in Called_("WhisperModel") \cup Called_("load_model") : calls[i].key[2] = "cuda"
    \/ \E i \in Called_("transcribe") : calls[i].device = "cuda"
EngineCalled == Called_("WhisperModel") \cup Called_("load_model") \cup Called_("transcribe") # {}

(* Raw values of an environment variable that env_flag reads as true. *)
TruthyRaw == {"1", "true", "yes", "on", " ON ", "True"}

IsTranscribe == IsObject /\ Command = "transcribe"
IsPrefetch == IsObject /\ Command = "prefetch"

CudaWithFallbackFailed ==
    /\ IsTranscribe
    /\ Get(line.req, "backendPreference", "auto") = "cuda"
    /\ Get(line.req, "allowBackendFallback", TRUE) = TRUE
    /\ CudaLoadRaised \/ CudaDecodeRaised

FellBack(r) ==
    /\ r.ok /\ r.backendRequested = "cuda" /\ r.backendUsed = "cpu" /\ r.backendFallback

(* C4 as stated: a transcribe request that prefers cuda, permits fallback  *)
(* and whose cuda attempt raises is answered ok with backendRequested      *)
(* cuda, backendUsed cpu and backendFallback true.                         *)
C4_Original == CudaWithFallbackFailed => FellBack(resp)

(* C4 (amended): such a request is answered ok with backendRequested cuda, *)
(* backendUsed cpu and backendFallback true when the cpu attempt that      *)
(* follows succeeds (its model load and its decode return); when the cpu   *)
(* attempt raises as well the response is a failure with the request's id. *)
C4_GpuFallback ==
    CudaWithFallbackFailed =>
        IF CpuDecodeReturned THEN FellBack(resp)
        ELSE /\ resp.ok = FALSE /\ ~HasTrace(resp)
             /\ resp.id = Get(line.req, "id", None)

C4_Witness == CudaWithFallbackFailed /\ CudaDecodeRaised /\ FellBack(resp)

PrefersCpu ==
    /\ IsTranscribe \/ IsPrefetch
    /\ Get(line.req, "backendPreference", "auto") = "cpu"

CpuOnly ==
    /\ ~CudaAttempted
    /\ (IsResponse(resp) /\ resp.ok) => resp.backendUsed = "cpu" /\ resp.backendFallback = FALSE

(* C5 as stated: a request that prefers cpu is run on cpu without fallback *)
(* and never touches cuda, whatever the environment and the probes say.    *)
C5_Original == PrefersCpu => CpuOnly

(* C5 (amended): a request that prefers cpu is run on cpu without fallback *)
(* and never touches cuda, whatever the probes say, unless the force-GPU   *)
(* override is in effect (VOICEWAVE_FORCE_GPU true and VOICEWAVE_FORCE_CPU *)
(* not true), in which case it is run on cuda.                             *)
C5_CpuPreference ==
    PrefersCpu =>
        IF env["VOICEWAVE_FORCE_GPU"] \in TruthyRaw /\ env["VOICEWAVE_FORCE_CPU"] \notin TruthyRaw
        THEN (IsResponse(resp) /\ resp.ok) => resp.backendRequested = "cuda"
        ELSE CpuOnly

C5_Witness ==
    /\ PrefersCpu /\ IsTranscribe /\ resp.ok /\ resp.backendUsed = "cpu"
    /\ env["VOICEWAVE_FORCE_GPU"] \in TruthyRaw /\ env["VOICEWAVE_FORCE_CPU"] \in TruthyRaw
    /\ hw.ctranslate2 /\ hw.device_count = Ret(1)

(* C6: with VOICEWAVE_FORCE_CPU set to a true value, a call of             *)
(* resolve_requested_backend returns "cpu" for every preference and every  *)
(* value of the other two flags, calls no probe and leaves both probe      *)
(* caches as they were.                                                    *)
C6_ForceCpu ==
    (probe.fn = "resolve_requested_backend" /\ env["VOICEWAVE_FORCE_CPU"] \in TruthyRaw) =>
        /\ probe.ret = Ret("cpu")
        /\ calls = <<>>
        /\ GPU_CAPABILITY_CACHE = probe.gpu_before
        /\ CUDA_RUNTIME_LIBS_READY_CACHE = probe.libs_before

C6_Witness ==
    /\ probe.fn = "resolve_requested_backend"
    /\ env["VOICEWAVE_FORCE_CPU"] = " ON " /\ env["VOICEWAVE_FORCE_GPU"] = "yes"
    /\ probe.raw_backend = "cuda"
    /\ hw.ctranslate2 /\ hw.device_count = Ret(1)
    /\ probe.ret = Ret("cpu")

(* C7: an entry of the model cache is never removed or replaced, and a     *)
(* load_model call for a key the cache holds returns the instance held,    *)
(* as a cache hit with load time 0, without a WhisperModel(...) call for   *)
(* that key.                                                               *)
C7_CacheStable ==
    [][\A k \in DOMAIN MODEL_CACHE :
          /\ k \in DOMAIN MODEL_CACHE' /\ MODEL_CACHE'[k] = MODEL_CACHE[k]
          /\ Handled =>
                \A i \in 1..Len(calls') :
                    /\ calls'[i].op = "WhisperModel" => calls'[i].key # k
                    /\ (calls'[i].op = "load_model" /\ calls'[i].key = k) =>
                           /\ calls'[i].hit /\ calls'[i].ms = 0
                           /\ calls'[i].model = MODEL_CACHE[k]]_vars

C7_Witness ==
    /\ nReq = 2
    /\ \E i \in Called_("load_model") : calls[i].hit /\ calls[i].key[2] = "cpu"
    /\ \E i \in Called_("WhisperModel") : ~calls[i].ok
    /\ resp.ok /\ resp.backendFallback

(* How a request fails validation. *)
BadModelId(req) == Get(req, "modelId", None) \notin ALLOWED_MODELS
BadAudio(req) ==
    \/ Get(req, "sampleRateHz", "16000") = "8000"
    \/ Get(req, "audioPcm16B64", None) \in {"AAAA", "A"}
    \/ /\ Get(req, "audioPcm16B64", None) \in {None, "  "}
       /\ Get(req, "audioPath", None) \notin Files
FailsValidation(l) ==
    /\ l.kind = "object"
    /\ \/ Get(l.req, "command", "transcribe") \in {"transcribe", "prefetch"} /\ BadModelId(l.req)
       \/ Get(l.req, "command", "transcribe") = "transcribe" /\ BadAudio(l.req)

(* C8 as stated: a transcribe or prefetch request whose model id is        *)
(* missing or not allowed, and a transcribe request whose sampleRateHz is  *)
(* other than 16000, whose PCM payload is undecodable or of odd length, or *)
(* that has neither a payload nor an existing path, is answered ok:false,  *)
(* leaves the model cache as it was and reaches neither load_model nor the *)
(* engine.                                                                 *)
C8_Original ==
    [][(/\ Handled
        /\ line'.kind = "object"
        /\ \/ FailsValidation(line')
           \/ /\ Get(line'.req, "command", "transcribe") = "transcribe"
              /\ Get(line'.req, "sampleRateHz", "16000") # "16000") =>
          /\ resp'.ok = FALSE
          /\ MODEL_CACHE' = MODEL_CACHE
          /\ \A i \in 1..Len(calls') :
                 calls'[i].op \notin {"WhisperModel", "load_model", "transcribe"}]_vars

(* The part of C8 the code keeps: with the sample rate compared after      *)
(* int(...), a request that fails validation is answered ok:false, leaves  *)
(* the model cache as it was and reaches neither load_model nor the        *)
(* engine; an unknown model id and a sample rate of 8000 get the messages  *)
(* of the specification.                                                   *)
C8_ValidationFrame ==
    [][(Handled /\ FailsValidation(line')) =>
          /\ resp'.ok = FALSE
          /\ MODEL_CACHE' = MODEL_CACHE
          /\ \A i \in 1..Len(calls') :
                 calls'[i].op \notin {"WhisperModel", "load_model", "transcribe"}
          /\ (Get(line'.req, "modelId", None) = "ghost-model" /\ ~HasTrace(resp')) =>
                 resp'.error = "Unsupported model ID: ghost-model. Allowed: small.en, large-v3"
          /\ (/\ Get(line'.req, "command", "transcribe") = "transcribe"
              /\ ~BadModelId(line'.req)
              /\ Get(line'.req, "sampleRateHz", "16000") = "8000"
              /\ ~HasTrace(resp')) =>
                 resp'.error = "Unsupported sample rate: 8000. Expected 16000 Hz."]_vars

C8_Witness ==
    /\ IsTranscribe /\ FailsValidation(line) /\ Get(line.req, "modelId", None) = "ghost-model"
    /\ resp.ok = FALSE /\ ~HasTrace(resp)
    /\ MODEL_CACHE # <<>>

SupportedEmpty(device) ==
    ~hw.ctranslate2 \/ hw.supported[device] \in {Raised, Ret({})}

(* C9 as stated: with no supported compute type reported for the device,   *)
(* resolve_compute_type returns its argument unchanged.                    *)
C9_Original ==
    (probe.fn = "resolve_compute_type" /\ SupportedEmpty(probe.device)) =>
        probe.ret = probe.requested_compute_type

(* The requested type in the form the negotiator compares and returns. *)
Requested(raw) ==
    CASE raw = ""          -> "int8"
      [] raw = "INT8"      -> "int8"
      [] raw = " float16 " -> "float16"
      [] raw = "Float32"   -> "float32"
      [] OTHER             -> raw

(* C9 (amended): with no supported compute type reported for the device    *)
(* (no ctranslate2 binding, the query raised, or it returned nothing),     *)
(* resolve_compute_type returns the requested type trimmed and in lower    *)
(* case, "int8" for the empty string: the argument itself exactly when it  *)
(* is non-empty, trimmed and in lower case already.                        *)
C9_EmptySupported ==
    (probe.fn = "resolve_compute_type" /\ SupportedEmpty(probe.device)) =>
        probe.ret = Requested(probe.requested_compute_type)

C9_Witness ==
    /\ probe.fn = "resolve_compute_type" /\ SupportedEmpty(probe.device)
    /\ hw.ctranslate2 /\ hw.supported["cuda"] = Raised
    /\ probe.device = "cuda" /\ probe.requested_compute_type = " float16 "
    /\ probe.ret = "float16"

(* C10: when the requested compute type is in the set ctranslate2 reports  *)
(* for the device, resolve_compute_type returns it, on cuda and on cpu,    *)
(* also when entries of the device's priority list are supported too.      *)
C10_SupportedIdentity ==
    (/\ probe.fn = "resolve_compute_type"
     /\ hw.ctranslate2 /\ hw.supported[probe.device] # Raised
     /\ probe.requested_compute_type \in hw.supported[probe.device][1]) =>
        probe.ret = probe.requested_compute_type

C10_Witness ==
    /\ probe.fn = "resolve_compute_type" /\ probe.device = "cpu"
    /\ hw.ctranslate2 /\ hw.supported["cpu"] = Ret({"int8", "float32", "int16"})
    /\ probe.requested_compute_type = "int16"
    /\ probe.ret = "int16"

----------------------------------------------------------------------------
IsShutdown == IsObject /\ Command = "shutdown"

(* C12: the iteration that reads a shutdown request prints exactly one     *)
(* line, the acknowledgement {"ok": true, "shutdown": true}, and main      *)
(* returns; no step follows a shutdown line or the return of main, so no   *)
(* later line is read or answered and nothing more is printed.             *)
C12_ShutdownStops ==
    [][/\ ~IsShutdown
       /\ pc # "exited"
       /\ (/\ Handled /\ line'.kind = "object"
           /\ Get(line'.req, "command", "transcribe") = "shutdown") =>
              /\ nOut' = nOut + 1
              /\ resp' = [ok |-> TRUE, shutdown |-> TRUE]
              /\ pc' = "exited"]_vars

(* shutdown read as the first line, with input left unread *)
C12_Witness ==
    /\ IsShutdown /\ pc = "exited"
    /\ nRead = 1 /\ nRead < MaxLines /\ nOut = 2
    /\ resp = [ok |-> TRUE, shutdown |-> TRUE]

(* C14: the first line printed is the ready signal {"ready": true}: main   *)
(* has printed nothing and read nothing before its first step, the only    *)
(* line printed when one line has been printed is the ready signal, and    *)
(* no line printed after it is a ready signal.                             *)
C14_ReadyFirst ==
    /\ pc = "start" <=> nOut = 0
    /\ nOut = 0 => nRead = 0
    /\ nOut = 1 => resp = [ready |-> TRUE]
    /\ nOut > 1 => "ready" \notin DOMAIN resp
    /\ nRead > 0 => nOut >= 1

(* two lines read and answered after the ready signal *)
C14_Witness ==
    /\ pc = "loop" /\ nRead = 2 /\ nOut = 3
    /\ IsResponse(resp) /\ "ready" \notin DOMAIN resp

(* C11: when the same transcribe request is issued twice and the engine    *)
(* does the same both times, the two responses have the same ok, and when  *)
(* ok the same text, segmentCount, avgLogProb, noSpeechProb and            *)
(* compressionRatio, whatever the model cache held at either call.         *)
Stable == {"text", "segmentCount", "avgLogProb", "noSpeechProb", "compressionRatio"}

C11_Idempotent ==
    (probe.fn = "transcribe" /\ probe.n = 2) =>
        /\ IsResponse(resp) /\ IsResponse(probe.before)
        /\ resp.ok = probe.before.ok
        /\ resp.ok => \A f \in Stable : resp[f] = probe.before[f]

(* the second response is served from the model cache, the first was not,  *)
(* and both carry a text                                                   *)
C11_Witness ==
    /\ probe.fn = "transcribe" /\ probe.n = 2
    /\ resp.ok /\ probe.before.ok
    /\ resp.runtimeCacheHit /\ ~probe.before.runtimeCacheHit
    /\ resp.modelInitMs # probe.before.modelInitMs
    /\ resp.text = "hello world" /\ resp.segmentCount = 3

(* the queries of the supported compute types of device d in a call log *)
SupportedQueries(log, d) ==
    {i \in 1..Len(log) : log[i].op = "get_supported_compute_types" /\ log[i].device = d}

(* C13 as stated: both probes are memoized process-wide.  A probe cache    *)
(* that is set keeps its value and the device count is not queried again,  *)
(* and the supported compute types of a device are queried at most once:   *)
(* at most once while a line is handled, and not at all if they were       *)
(* queried while the line before was handled.                              *)
C13_Original ==
    [][Handled =>
          /\ GPU_CAPABILITY_CACHE # <<>> =>
                 /\ GPU_CAPABILITY_CACHE' = GPU_CAPABILITY_CACHE
                 /\ \A i \in 1..Len(calls') : calls'[i].op # "get_cuda_device_count"
          /\ CUDA_RUNTIME_LIBS_READY_CACHE # <<>> =>
                 CUDA_RUNTIME_LIBS_READY_CACHE' = CUDA_RUNTIME_LIBS_READY_CACHE
          /\ \A d \in Devices :
                 /\ Cardinality(SupportedQueries(calls', d)) <= 1
                 /\ SupportedQueries(calls, d) # {} => SupportedQueries(calls', d) = {}]_vars

(* the model loads of the last iteration that the cache served *)
CacheHits == {i \in Called_("load_model") : calls[i].hit}

(* C17 as stated: a transcribe request answered ok reports runtimeCacheHit *)
(* true exactly when at least one of its model loads was served from the   *)
(* model cache.                                                            *)
C17_Original ==
    (IsTranscribe /\ IsResponse(resp) /\ resp.ok) =>
        (resp.runtimeCacheHit <=> CacheHits # {})

(* The reference decision table of the backend resolver, on the raw        *)
(* environment values, the raw preference and what the two probes answer   *)
(* on this machine.  A preference is read without regard to case and outer *)
(* whitespace.                                                             *)
FalsyRaw == {"0", "false", "no", "off", "No"}
CpuWords == {"cpu", "CPU"}
CudaWords == {"cuda", " cuda "}
GpuPresent == hw.ctranslate2 /\ hw.device_count # Raised /\ hw.device_count[1] > 0
LibsReady ==
    \/ hw.ctranslate2 /\ hw.supported["cuda"] # Raised /\ hw.supported["cuda"][1] # {}
    \/ hw.winDLL

(* choice is the preference as the table reads it: cpu, cuda or auto *)
Reference(choice) ==
    IF env["VOICEWAVE_FORCE_CPU"] \in TruthyRaw THEN "cpu"
    ELSE IF env["VOICEWAVE_FORCE_GPU"] \in TruthyRaw THEN "cuda"
    ELSE IF choice \in {"cpu", "cuda"} THEN choice
    ELSE IF env["VOICEWAVE_AUTO_GPU"] \in FalsyRaw THEN "cpu"
    ELSE IF GpuPresent /\ LibsReady THEN "cuda"
    ELSE "cpu"

Attempts ==
    {i \in 1..Len(calls) : \/ calls[i].op = "WhisperModel"
                           \/ calls[i].op = "load_model" /\ calls[i].hit}
AttemptFailed(i) ==
    \/ calls[i].op = "WhisperModel" /\ ~calls[i].ok
    \/ \E j \in Called_("transcribe") :
          j > i /\ calls[j].device = calls[i].key[2] /\ ~calls[j].ok

C18_PrefetchLoadsOnly ==
    IsPrefetch =>
        /\ Called_("transcribe") = {}
        /\ (IsResponse(resp) /\ resp.ok) =>
              /\ <<line.req.modelId, resp.backendUsed, resp.computeTypeUsed>>
                     \in DOMAIN MODEL_CACHE
              /\ \A f \in {"text", "segmentCount", "decodeComputeMs"} : f \notin DOMAIN resp

(* a prefetch that fell back from cuda and left the cpu model in the cache *)
C18_Witness ==
    /\ IsPrefetch /\ IsResponse(resp) /\ resp.ok
    /\ resp.backendFallback /\ resp.backendUsed = "cpu"
    /\ <<line.req.modelId, "cpu", resp.computeTypeUsed>> \in DOMAIN MODEL_CACHE
    /\ Called_("WhisperModel") # {}

(* The fixed priority list of a device, and its first entry in the set S   *)
(* (<<>> when S holds none of its entries).                                *)
PriorityList(device) ==
    IF device = "cuda"
    THEN <<"int8_float16", "float16", "int8", "float32", "int8_float32">>
    ELSE <<"int8", "int8_float32", "float32">>
FirstListed(device, S) ==
    LET P == PriorityList(device)
        I == {i \in 1..Len(P) : P[i] \in S}
    IN IF I = {} THEN <<>> ELSE <<P[CHOOSE i \in I : \A j \in I : i <= j]>>
SupportedSet(device) ==
    IF hw.ctranslate2 /\ hw.supported[device] # Raised THEN hw.supported[device][1] ELSE {}

(* C19 as stated: when the supported set of the device is non-empty and    *)
(* does not contain the requested type, resolve_compute_type returns the   *)
(* first supported entry of the device's priority list, or the requested   *)
(* value when the set holds no entry of the list; the result is always the *)
(* requested value or a member of the supported set.                       *)
C19_Original ==
    probe.fn = "resolve_compute_type" =>
        LET S == SupportedSet(probe.device)
            first == FirstListed(probe.device, S)
        IN /\ (S # {} /\ probe.requested_compute_type \notin S) =>
                  probe.ret = IF first = <<>> THEN probe.requested_compute_type ELSE first[1]
           /\ probe.ret = probe.requested_compute_type \/ probe.ret \in S

(* C19 (amended): the same with the requested type read trimmed and in     *)
(* lower case ("int8" for the empty string), which is the value compared   *)
(* with the supported set and the value returned when no entry of the list *)
(* is supported.                                                           *)
C19_PriorityList ==
    probe.fn = "resolve_compute_type" =>
        LET S == SupportedSet(probe.device)
            first == FirstListed(probe.device, S)
            requested == Requested(probe.requested_compute_type)
        IN /\ (S # {} /\ requested \notin S) =>
                  probe.ret = IF first = <<>> THEN requested ELSE first[1]
           /\ probe.ret = requested \/ probe.ret \in S

(* bfloat16 requested on cuda where float16, int8_float16 and float32 are  *)
(* supported: the earliest of the three in the cuda list is returned       *)
C19_Witness ==
    /\ probe.fn = "resolve_compute_type" /\ probe.device = "cuda"
    /\ SupportedSet("cuda") = {"float16", "int8_float16", "float32"}
    /\ probe.requested_compute_type = "bfloat16"
    /\ probe.ret = "int8_float16"

(* C20: in every ok response of transcribe or prefetch, backendFallback is *)
(* true exactly when backendUsed differs from backendRequested; when it is *)
(* true the request was resolved to cuda, ran on cpu and allowed fallback; *)
(* a request resolved to cpu never runs on cuda.                           *)
C20_FallbackProvenance ==
    ((IsTranscribe \/ IsPrefetch) /\ IsResponse(resp) /\ resp.ok) =>
        /\ resp.backendFallback <=> resp.backendUsed # resp.backendRequested
        /\ resp.backendFallback =>
              /\ resp.backendRequested = "cuda" /\ resp.backendUsed = "cpu"
              /\ Get(line.req, "allowBackendFallback", TRUE) = TRUE
        /\ resp.backendRequested = "cpu" => resp.backendUsed = "cpu"
        /\ resp.backendRequested = "cpu" => ~CudaAttempted

(* a prefetch resolved to cuda by the probes that was loaded on cpu after  *)
(* the cuda load raised                                                    *)
C20_Witness ==
    /\ IsPrefetch /\ IsResponse(resp) /\ resp.ok
    /\ resp.backendFallback /\ resp.backendRequested = "cuda" /\ resp.backendUsed = "cpu"
    /\ "allowBackendFallback" \notin DOMAIN line.req
    /\ CudaLoadRaised

====
